---- MODULE Spec2Model ----
(***************************************************************************)
(* The two MCP tools of api/server.ts, verify_claim and find_similar, as a *)
(* state machine.  Each tool call runs its handler in atomic steps         *)
(* separated by the handler's awaits (fetch, then response.text() or       *)
(* response.json()); several calls may be in flight at once.               *)
(*                                                                         *)
(* A string is a sequence of segments.  Header values, keys and tool       *)
(* arguments are spelled one character per segment, so that startsWith     *)
(* and slice act on characters; the string literals of the source are      *)
(* single segments.  A JavaScript value carries its type in the field t.   *)
(***************************************************************************)
EXTENDS Integers, Sequences, FiniteSets, TLC

VARIABLES configuredKey, inv

vars == <<configuredKey, inv>>

\* The number of tool calls the server may have in flight at once.
MaxInv == 2

Slots == 1..MaxInv

----------------------------------------------------------------------------
\* JavaScript values

Undefined == [t |-> "undefined"]

Null == [t |-> "null"]

Str(s) == [t |-> "string", s |-> s]

Arr(a) == [t |-> "array", a |-> a]

\* if (v), !v
Truthy(v) ==
  CASE v.t = "string" -> v.s # <<>>
    [] v.t = "array" -> TRUE
    [] v.t = "object" -> TRUE
    [] OTHER -> FALSE

\* a ?? b
Coalesce(a, b) == IF a.t \in {"undefined", "null"} THEN b ELSE a

\* a[n], n counted from 0
ElementAt(a, n) == IF n + 1 \in DOMAIN a THEN a[n + 1] ELSE Undefined

\* s.startsWith(p)
StartsWith(s, p) == Len(s) >= Len(p) /\ SubSeq(s, 1, Len(p)) = p

\* s.slice(n)
Slice(s, n) == SubSeq(s, n + 1, Len(s))

\* s occurs in text
Contains(text, s) ==
  \E k \in 0..(Len(text) - Len(s)) : SubSeq(text, k + 1, k + Len(s)) = s

----------------------------------------------------------------------------
\* Credential resolution

BearerPrefix == <<"B", "e", "a", "r", "e", "r", " ">>

\* headers['Authorization'] only: the lowercase key is never consulted
HeaderLookup_upperOnly(headers) == headers.Authorization

\* headers['Authorization'] ?? headers['authorization']
HeaderLookup(headers) == Coalesce(headers.Authorization, headers.authorization)

\* authHeader.slice(6): the space of the prefix stays in the key
BearerKey_slice6(authHeader) == Slice(authHeader, 6)

\* authHeader.slice(7)
BearerKey(authHeader) == Slice(authHeader, 7)

\* The handler's rekaApiKey after the header has been looked at: the
\* configured key, overridden by an Authorization header that starts with
\* "Bearer ".
ResolveKey(env, context) ==
  IF Truthy(context.headers)
  THEN LET rawAuthHeader == HeaderLookup(context.headers)
       IN  IF Truthy(rawAuthHeader)
           THEN LET authHeader == IF rawAuthHeader.t = "array"
                                  THEN ElementAt(rawAuthHeader.a, 0)
                                  ELSE rawAuthHeader
                IN  IF authHeader.t = "string" /\ StartsWith(authHeader.s, BearerPrefix)
                    THEN Str(BearerKey(authHeader.s))
                    ELSE env
           ELSE env
  ELSE env

\* rekaApiKey === undefined: an empty key passes
KeyMissing_undefinedOnly(key) == key.t = "undefined"

\* !rekaApiKey
KeyMissing(key) == ~Truthy(key)

MissingKeyMessage ==
  <<"REKA_API_KEY must be provided",
    " via environment variable 'REKA_API_KEY' or Authorization header">>

\* new Error(message) and the errors the runtime raises
Error(message) == [isError |-> TRUE, message |-> message]

MissingKeyError == Error(MissingKeyMessage)

----------------------------------------------------------------------------
\* Upstream client

\* The instruction verifyClaimWithReka sends as the user message
VerifyPrompt(claim) ==
  <<"Analyze the given claim and provide a verification assessment. Return your response as a JSON object with 'verdict' (true/false/uncertain), 'confidence' (0-1), and 'reasoning' fields. Please verify this claim: ">>
  \o claim

\* The instruction findSimilarWithReka sends as the user message
FindPrompt(target, attribute) ==
  <<"Find items similar to the given target based on the specified attribute. Provide a detailed analysis and list of similar items with explanations.\n\nTarget: ">>
  \o target
  \o <<"\nAttribute to compare: ">>
  \o attribute
  \o <<"\n\nAnalyze the target and find similar items based on the \"">>
  \o attribute
  \o <<"\" attribute. Provide concrete examples and explain why they are similar.">>

Prompt(tool, args) ==
  IF tool = "verify_claim"
  THEN VerifyPrompt(args.claim)
  ELSE FindPrompt(args.target, args.attribute)

\* The request fetch is called with
UpstreamRequest(tool, args, rekaApiKey) ==
  [url |-> "https://api.reka.ai/v1/chat/completions",
   method |-> "POST",
   authorization |-> BearerPrefix \o rekaApiKey,
   model |-> "reka-flash-research",
   role |-> "user",
   content |-> Prompt(tool, args)]

\* response.ok
Ok(response) == response.status \in 200..299

\* The error thrown for a response that is not ok
StatusError(response) ==
  Error(<<"Reka API error: ", ToString(response.status), " ">> \o response.statusText)

Placeholder == <<"No response received">>

Thrown(e) == [threw |-> TRUE, error |-> e, value |-> <<>>]

Returned(v) == [threw |-> FALSE, error |-> Null, value |-> v]

\* data.choices[0]?.message?.content || "No response received"
ExtractContent(data) ==
  IF data.t = "null"
  THEN Thrown(Error(<<"Cannot read properties of null (reading 'choices')">>))
  ELSE IF data.choices.t \in {"undefined", "null"}
  THEN Thrown(Error(<<"Cannot read properties of undefined (reading '0')">>))
  ELSE LET first == ElementAt(data.choices.a, 0)
           message == IF first.t \in {"undefined", "null"} THEN Undefined ELSE first.message
           content == IF message.t \in {"undefined", "null"} THEN Undefined ELSE message.content
       IN  Returned(IF Truthy(content) THEN content.s ELSE Placeholder)

----------------------------------------------------------------------------
\* Tool handlers

ErrorPrefix(tool) ==
  IF tool = "verify_claim"
  THEN <<"Error verifying claim: ">>
  ELSE <<"Error finding similar items: ">>

\* error instanceof Error ? error.message : 'Unknown error'
ErrorMessage(e) == IF e.isError THEN e.message ELSE <<"Unknown error">>

TextBlock(text) == [type |-> "text", text |-> text]

\* No catch: the exception leaves the handler
HandlerCatch_rethrow(r, e) == [r EXCEPT !.pc = "threw"]

\* The handler's catch block: the error becomes the text of the response
HandlerCatch(r, e) ==
  [r EXCEPT !.pc = "done",
            !.result = <<TextBlock(ErrorPrefix(r.tool) \o ErrorMessage(e))>>]

\* The handler's return after the upstream client returned text
HandlerReturn(r, text) ==
  [r EXCEPT !.pc = "done", !.result = <<TextBlock(text)>>]

----------------------------------------------------------------------------
\* Tool calls and what the upstream may answer

K1 == <<"k", "1">>

K2 == <<"k", "2">>

K3 == <<"k", "3">>

Token == <<"T", "o", "k", "e", "n", " ">>

\* REKA_API_KEY in the environment: unset, empty or set
ConfiguredKeys == {Undefined, Str(<<>>), Str(K1)}

\* The values a header of the call may have: a string, a list of strings,
\* or absent
HeaderValues ==
  {Undefined,
   Str(<<>>),
   Str(BearerPrefix \o K2),
   Str(BearerPrefix),
   Str(Token \o K2),
   Arr(<<Str(BearerPrefix \o K3), Str(Token \o K2)>>),
   Arr(<<Str(Token \o K2), Str(BearerPrefix \o K3)>>),
   Arr(<<>>)}

Headers(upper, lower) ==
  [t |-> "object", Authorization |-> upper, authorization |-> lower]

NoHeaders == [headers |-> Undefined]

Contexts ==
  {NoHeaders} \cup {[headers |-> Headers(u, l)] : u \in HeaderValues, l \in HeaderValues}

\* z.string() accepts every string, the empty one included
ArgStrings == {<<>>, <<"x">>}

Arguments(tool) ==
  IF tool = "verify_claim"
  THEN {[claim |-> c] : c \in ArgStrings}
  ELSE {[target |-> g, attribute |-> a] : g \in ArgStrings, a \in ArgStrings}

Tools == {"verify_claim", "find_similar"}

\* A tool call whose arguments passed the schema, its handler not yet run
Call(tool, args, context) ==
  [pc |-> "received", tool |-> tool, args |-> args, context |-> context,
   rekaApiKey |-> Undefined, requests |-> <<>>, response |-> Null,
   body |-> [kind |-> "none"], result |-> <<>>]

NoCall ==
  [Call("verify_claim", [claim |-> <<>>], NoHeaders) EXCEPT !.pc = "none"]

\* Status line of the upstream's answer
Responses ==
  {[status |-> 200, statusText |-> <<"OK">>],
   [status |-> 401, statusText |-> <<"Unauthorized">>],
   [status |-> 500, statusText |-> <<>>]}

Object(choices) == [t |-> "object", choices |-> choices]

Choice(message) == [t |-> "object", message |-> message]

Message(content) == [t |-> "object", content |-> content]

\* What response.json() may resolve to
Bodies ==
  {Null,
   Object(Undefined),
   Object(Arr(<<>>)),
   Object(Arr(<<Null>>)),
   Object(Arr(<<Choice(Undefined)>>)),
   Object(Arr(<<Choice(Message(Undefined))>>)),
   Object(Arr(<<Choice(Message(Str(<<>>)))>>)),
   Object(Arr(<<Choice(Message(Str(<<"{\"verdict\": \"true\"}">>))),
                Choice(Message(Str(<<"second">>)))>>)),
   Object(Arr(<<Choice(Message(Str(<<"not json">>)))>>))}

\* Rejections of fetch, response.text() and response.json()
FetchErrors == {Error(<<"fetch failed">>)}

TextErrors == {Error(<<"terminated">>)}

JsonErrors == {Error(<<"Unexpected token < in JSON at position 0">>), Error(<<"terminated">>)}

----------------------------------------------------------------------------
\* The handler, one action per stretch between awaits

\* The handler keeps the resolved key in the environment, where the next
\* call finds it
StartHandler_cachesKey(i) ==
  /\ inv[i].pc = "received"
  /\ LET r == inv[i]
         key == ResolveKey(configuredKey, r.context)
     IN  /\ inv' = [inv EXCEPT ![i] =
                      IF KeyMissing(key)
                      THEN HandlerCatch([r EXCEPT !.rekaApiKey = key], MissingKeyError)
                      ELSE [r EXCEPT !.pc = "await_fetch",
                                     !.rekaApiKey = key,
                                     !.requests = Append(@, UpstreamRequest(r.tool, r.args, key.s))]]
         /\ configuredKey' = key

\* The tool callback up to the await of fetch: the key is resolved, and
\* either the missing key is reported or the request is sent.
StartHandler(i) ==
  /\ inv[i].pc = "received"
  /\ LET r == inv[i]
         key == ResolveKey(configuredKey, r.context)
     IN  inv' = [inv EXCEPT ![i] =
                   IF KeyMissing(key)
                   THEN HandlerCatch([r EXCEPT !.rekaApiKey = key], MissingKeyError)
                   ELSE [r EXCEPT !.pc = "await_fetch",
                                  !.rekaApiKey = key,
                                  !.requests = Append(@, UpstreamRequest(r.tool, r.args, key.s))]]
  /\ UNCHANGED configuredKey

\* fetch rejects: the network call failed
FetchRejects(i) ==
  /\ inv[i].pc = "await_fetch"
  /\ \E e \in FetchErrors : inv' = [inv EXCEPT ![i] = HandlerCatch(@, e)]
  /\ UNCHANGED configuredKey

\* fetch resolves with a response: its body is read as text when the status
\* is not ok, as JSON when it is
FetchResolves(i) ==
  /\ inv[i].pc = "await_fetch"
  /\ \E response \in Responses :
       inv' = [inv EXCEPT ![i].response = response,
                          ![i].pc = IF Ok(response) THEN "await_json" ELSE "await_text"]
  /\ UNCHANGED configuredKey

\* response.text() settles for a response that is not ok
TextSettles(i) ==
  /\ inv[i].pc = "await_text"
  /\ \/ \E errorText \in {<<>>, <<"{\"error\": \"denied\"}">>} :
          inv' = [inv EXCEPT ![i] =
                    HandlerCatch([@ EXCEPT !.body = [kind |-> "text", text |-> errorText]],
                                 StatusError(@.response))]
     \/ \E e \in TextErrors :
          inv' = [inv EXCEPT ![i] =
                    HandlerCatch([@ EXCEPT !.body = [kind |-> "rejected", error |-> e]], e)]
  /\ UNCHANGED configuredKey

\* response.json() settles for a response that is ok
JsonSettles(i) ==
  /\ inv[i].pc = "await_json"
  /\ \/ \E data \in Bodies :
          LET r == [inv[i] EXCEPT !.body = [kind |-> "json", data |-> data]]
              x == ExtractContent(data)
          IN  inv' = [inv EXCEPT ![i] =
                        IF x.threw THEN HandlerCatch(r, x.error) ELSE HandlerReturn(r, x.value)]
     \/ \E e \in JsonErrors :
          inv' = [inv EXCEPT ![i] =
                    HandlerCatch([@ EXCEPT !.body = [kind |-> "rejected", error |-> e]], e)]
  /\ UNCHANGED configuredKey

\* The transport's maximum duration passes while the handler still awaits
\* the upstream: fetch is given no signal and the handler sets no timer, so
\* nothing rejects and the catch block does not run.
Deadline(i) ==
  /\ inv[i].pc \in {"await_fetch", "await_text", "await_json"}
  /\ inv' = [inv EXCEPT ![i].pc = "aborted"]
  /\ UNCHANGED configuredKey

Next ==
  \E i \in Slots :
    \/ StartHandler(i)
    \/ FetchRejects(i)
    \/ FetchResolves(i)
    \/ TextSettles(i)
    \/ JsonSettles(i)
    \/ Deadline(i)

\* One tool call, with any arguments, headers and configured key
Init ==
  /\ configuredKey \in ConfiguredKeys
  /\ \E tool \in Tools : \E args \in Arguments(tool) : \E context \in Contexts :
       inv = [i \in Slots |-> IF i = 1 THEN Call(tool, args, context) ELSE NoCall]

Spec == Init /\ [][Next]_vars

\* headers with the values of the two casings exchanged
SwapCase(context) ==
  [headers |-> Headers(context.headers.authorization, context.headers.Authorization)]

\* headers without the lowercase key
UpperOnly(context) ==
  [headers |-> Headers(context.headers.Authorization, Undefined)]

\* Two calls of one tool whose headers differ in the casing of the key only
InitPair ==
  /\ configuredKey \in ConfiguredKeys
  /\ \E tool \in Tools : \E u \in HeaderValues : \E l \in HeaderValues :
       LET context == [headers |-> Headers(u, l)]
           args == IF tool = "verify_claim"
                   THEN [claim |-> <<"x">>]
                   ELSE [target |-> <<"x">>, attribute |-> <<"x">>]
       IN  \E other \in {SwapCase(context), UpperOnly(context)} :
             inv = [i \in Slots |->
                      IF i = 1 THEN Call(tool, args, context)
                      ELSE IF i = 2 THEN Call(tool, args, other)
                      ELSE NoCall]

PairSpec == InitPair /\ [][Next]_vars

\* The arguments and the header key of the client in slot i
SlotText(i) == <<"q", ToString(i)>>

SlotKey(i) == <<"h", ToString(i)>>

SlotArguments(tool, i) ==
  IF tool = "verify_claim"
  THEN [claim |-> SlotText(i)]
  ELSE [target |-> SlotText(i), attribute |-> <<"f">>]

\* A call in every slot, each with its own arguments, and with its own key
\* in the authorization header or with no headers at all
InitConc ==
  /\ configuredKey \in {Undefined, Str(K1)}
  /\ \E tools \in [Slots -> Tools] :
     \E withKey \in [Slots -> BOOLEAN] :
       inv = [i \in Slots |->
                Call(tools[i], SlotArguments(tools[i], i),
                     IF withKey[i]
                     THEN [headers |-> Headers(Undefined, Str(BearerPrefix \o SlotKey(i)))]
                     ELSE NoHeaders)]

ConcSpec == InitConc /\ [][Next]_vars

----------------------------------------------------------------------------
\* Properties of a single tool call (Spec)

\* The handler of the call has run at least its first stretch
Started(r) == r.pc \notin {"none", "received"}

\* s is "Bearer " followed by anything
IsBearer(s) == \E k \in 0..Len(s) : s = BearerPrefix \o SubSeq(s, Len(s) - k + 1, Len(s))

HasBearerValue(v) ==
  CASE v.t = "string" -> IsBearer(v.s)
    [] v.t = "array" -> \E n \in DOMAIN v.a : IsBearer(v.a[n].s)
    [] OTHER -> FALSE

NoBearerHeader(context) ==
  \/ context.headers.t = "undefined"
  \/ /\ ~HasBearerValue(context.headers.Authorization)
     /\ ~HasBearerValue(context.headers.authorization)

MustBeProvided == <<"REKA_API_KEY must be provided">>

OneTextBlock(r) == Len(r.result) = 1 /\ r.result[1].type = "text"

\* C1: a call with schema-valid arguments never ends with an exception
\* leaving the handler, whatever the key and whatever the upstream did; a
\* call that has returned holds a content list of exactly one text block,
\* and no content exists before the return.
C1_OneTextBlockNeverThrows ==
  \A i \in Slots :
    /\ inv[i].pc # "threw"
    /\ inv[i].pc = "done" => OneTextBlock(inv[i])
    /\ inv[i].pc # "done" => inv[i].result = <<>>

\* A call that returned after the upstream's body could not be parsed, one
\* after fetch was rejected or the status was not ok
C1_Witness ==
  \E i \in Slots :
    /\ inv[i].pc = "done"
    /\ inv[i].requests # <<>>
    /\ inv[i].response # Null
    /\ inv[i].body.kind = "rejected"
    /\ OneTextBlock(inv[i])

\* C2: with the configured key unset or empty and no header value that
\* starts with "Bearer ", the call sends no upstream request and returns one
\* text block containing "REKA_API_KEY must be provided".
C2_NoKeyNoRequest ==
  \A i \in Slots :
    (/\ Started(inv[i])
     /\ configuredKey \in {Undefined, Str(<<>>)}
     /\ NoBearerHeader(inv[i].context))
    => /\ inv[i].requests = <<>>
       /\ inv[i].pc = "done"
       /\ OneTextBlock(inv[i])
       /\ Contains(inv[i].result[1].text, MustBeProvided)

C2_Witness ==
  \E i \in Slots :
    /\ inv[i].pc = "done"
    /\ configuredKey = Str(<<>>)
    /\ inv[i].context.headers.t = "object"
    /\ inv[i].context.headers.Authorization = Str(Token \o K2)
    /\ inv[i].requests = <<>>
    /\ Contains(inv[i].result[1].text, MustBeProvided)

\* The header value the resolver reads: the one under Authorization, else
\* the one under authorization; of a list, the first element
AuthorizationValue(context) ==
  IF context.headers.t = "undefined" THEN Undefined
  ELSE IF context.headers.Authorization.t # "undefined" THEN context.headers.Authorization
  ELSE context.headers.authorization

FirstValue(v) ==
  IF v.t = "array" THEN (IF v.a = <<>> THEN Undefined ELSE v.a[1]) ELSE v

\* C3: the key sent upstream is the text after "Bearer " when the call's
\* Authorization value (the first of a list) starts with that prefix, and
\* the configured key otherwise.
C3_KeyPrecedence ==
  \A i \in Slots :
    inv[i].requests # <<>> =>
      LET v == FirstValue(AuthorizationValue(inv[i].context))
          sent == inv[i].requests[1].authorization
      IN  IF v.t = "string" /\ IsBearer(v.s)
          THEN \A k \in 0..Len(v.s) :
                 LET key == SubSeq(v.s, Len(v.s) - k + 1, Len(v.s))
                 IN  v.s = BearerPrefix \o key => sent = BearerPrefix \o key
          ELSE /\ configuredKey.t = "string"
               /\ sent = BearerPrefix \o configuredKey.s

\* K1 is configured and the header carries Bearer K2: K2 is sent
C3_Witness ==
  \E i \in Slots :
    /\ configuredKey = Str(K1)
    /\ inv[i].context.headers.t = "object"
    /\ inv[i].context.headers.Authorization = Undefined
    /\ inv[i].context.headers.authorization = Str(BearerPrefix \o K2)
    /\ Len(inv[i].requests) = 1
    /\ inv[i].requests[1].authorization = BearerPrefix \o K2

\* C5: a call whose upstream response had a status that is not ok has sent
\* exactly one request and returns one text block that contains the status
\* code and the status text.
C5_StatusInText ==
  \A i \in Slots :
    (inv[i].pc = "done" /\ inv[i].response # Null /\ ~Ok(inv[i].response))
    => /\ Len(inv[i].requests) = 1
       /\ OneTextBlock(inv[i])
       /\ Contains(inv[i].result[1].text, <<ToString(inv[i].response.status)>>)
       /\ Contains(inv[i].result[1].text, inv[i].response.statusText)

\* The content of the first choice, when the body has one
FirstContent(data) ==
  IF data.choices.t = "array" /\ data.choices.a # <<>>
  THEN LET first == data.choices.a[1]
       IN  IF first.t = "object" /\ first.message.t = "object"
           THEN first.message.content
           ELSE Undefined
  ELSE Undefined

\* C6: after a response that is ok and whose body is a JSON object, the text
\* is the content of the first choice, and it is exactly "No response
\* received" when choices is empty or missing or that content is absent (an
\* empty content may be rendered either way).
C6_ContentOrPlaceholder ==
  \A i \in Slots :
    (inv[i].pc = "done" /\ inv[i].body.kind = "json" /\ inv[i].body.data.t = "object")
    => LET content == FirstContent(inv[i].body.data)
       IN  /\ OneTextBlock(inv[i])
           /\ inv[i].result[1].text =
                IF content.t = "string" /\ content.s # <<>> THEN content.s ELSE Placeholder

\* C8: a call that has ended, by its return or by the maximum duration
\* passing, holds exactly one text block; after a timeout it is an error
\* text of the handler.
C8_TimeoutYieldsErrorText ==
  \A i \in Slots :
    inv[i].pc \in {"done", "aborted"}
    => /\ OneTextBlock(inv[i])
       /\ inv[i].pc = "aborted" => StartsWith(inv[i].result[1].text, ErrorPrefix(inv[i].tool))

\* C10: with a configured key that is not empty, no call ends in the
\* "REKA_API_KEY must be provided" error, whatever its headers.
C10_ConfiguredKeyNeverMissing ==
  \A i \in Slots :
    (inv[i].pc = "done" /\ configuredKey.t = "string" /\ configuredKey.s # <<>>)
    => ~Contains(inv[i].result[1].text, MustBeProvided)

----------------------------------------------------------------------------
\* Properties of two calls with related headers (PairSpec)

\* What the resolution of the key came to: the missing key, or the
\* credential sent upstream
Outcome(r) ==
  [missing |-> r.requests = <<>>,
   authorization |-> IF r.requests = <<>> THEN <<>> ELSE r.requests[1].authorization]

\* C4 as claimed: two calls whose headers carry the same values with the
\* casing of the key exchanged resolve alike, also when both casings are
\* present.
C4_CasingExchanged ==
  \A i, j \in Slots :
    (/\ Started(inv[i]) /\ Started(inv[j])
     /\ inv[i].context.headers.t = "object"
     /\ inv[j].context = SwapCase(inv[i].context))
    => Outcome(inv[i]) = Outcome(inv[j])

\* C4: a call that carries v under authorization alone resolves as a call
\* that carries v under Authorization alone; when both casings are present,
\* the call resolves as if only the value under Authorization were there.
C4_CasingAlone ==
  \A i, j \in Slots :
    (Started(inv[i]) /\ Started(inv[j]) /\ inv[i].context.headers.t = "object")
    => /\ (/\ inv[i].context.headers.authorization = Undefined
           /\ inv[j].context = SwapCase(inv[i].context))
          => Outcome(inv[i]) = Outcome(inv[j])
       /\ (/\ inv[i].context.headers.Authorization # Undefined
           /\ inv[j].context = UpperOnly(inv[i].context))
          => Outcome(inv[i]) = Outcome(inv[j])

\* Bearer K2 under Authorization in one call, under authorization in the
\* other, K1 configured: both send K2
C4_Witness ==
  \E i, j \in Slots :
    /\ configuredKey = Str(K1)
    /\ inv[i].context.headers = Headers(Str(BearerPrefix \o K2), Undefined)
    /\ inv[j].context.headers = Headers(Undefined, Str(BearerPrefix \o K2))
    /\ Len(inv[i].requests) = 1 /\ Len(inv[j].requests) = 1
    /\ inv[i].requests[1].authorization = BearerPrefix \o K2
    /\ inv[j].requests[1].authorization = BearerPrefix \o K2

----------------------------------------------------------------------------
\* Properties of concurrent calls (ConcSpec)

\* The request of a call, from its own arguments and headers and the
\* configured key
OwnRequest(r, env) ==
  LET v == FirstValue(AuthorizationValue(r.context))
  IN  [url |-> "https://api.reka.ai/v1/chat/completions",
       method |-> "POST",
       authorization |-> IF v.t = "string" /\ IsBearer(v.s) THEN v.s ELSE BearerPrefix \o env.s,
       model |-> "reka-flash-research",
       role |-> "user",
       content |-> Prompt(r.tool, r.args)]

\* The text of a returned call comes from its own upstream result: the
\* content of its own body, the placeholder, or an error of its own tool
OwnText(r) ==
  /\ OneTextBlock(r)
  /\ \/ StartsWith(r.result[1].text, ErrorPrefix(r.tool))
     \/ /\ r.body.kind = "json"
        /\ r.body.data.t = "object"
        /\ r.result[1].text \in {Placeholder} \cup
             (IF FirstContent(r.body.data).t = "string"
              THEN {FirstContent(r.body.data).s}
              ELSE {})

\* C9: a step of one call changes no other call and not the configured
\* key, keeps the call's own arguments and headers, sends a request made of
\* the call's own arguments and headers and the configured key, and returns
\* a text made of the call's own upstream result.
C9_Isolation ==
  [][/\ configuredKey' = configuredKey
     /\ \A i \in Slots :
          inv'[i] # inv[i] =>
            /\ \A j \in Slots \ {i} : inv'[j] = inv[j]
            /\ inv'[i].tool = inv[i].tool
            /\ inv'[i].args = inv[i].args
            /\ inv'[i].context = inv[i].context
            /\ \/ inv'[i].requests = <<>>
               \/ inv'[i].requests = <<OwnRequest(inv[i], configuredKey)>>
            /\ inv'[i].pc = "done" => OwnText(inv'[i])]_vars

\* Two calls in flight at once, one through its own header key and one
\* through the configured key, one of them already answered
C9_Witness ==
  \E i, j \in Slots :
    /\ i # j
    /\ inv[i].pc = "await_json"
    /\ inv[j].pc = "await_fetch"
    /\ inv[i].requests[1].authorization = BearerPrefix \o SlotKey(i)
    /\ inv[j].requests[1].authorization = BearerPrefix \o K1
    /\ inv[i].requests[1].content # inv[j].requests[1].content

====
